---- MODULE Spec2Model ----
(***************************************************************************)
(* Model of app.py (anon-pdf): CPF/CNPJ redaction of a PDF.                *)
(*                                                                         *)
(* Texts are sequences of one-character strings.  Coordinates are integers *)
(* in hundredths of a PDF point (page space) or whole pixels (raster       *)
(* space).  The PDF library and the OCR engine are external: what they     *)
(* return (rectangles, text, exceptions) is drawn from small sets.         *)
(***************************************************************************)
EXTENDS Integers, Sequences, FiniteSets, TLC

VARIABLES
    pc,             \* position of the script
    page,           \* index of the page bound by the current for loop (0: none)
    doc,            \* the document object bound to the name doc
    reader,         \* number of easyocr.Reader constructions
    cur,            \* what the library calls did on the current page
    rects_primary,  \* main: rects_primary / second pass: text_instances
    rects_fallback, \* main: rects_fallback (second pass: rects of the literal searches)
    ocr_rects,      \* main: ocr_rects
    all_rects,      \* main: all_rects
    unique,         \* main: unique
    entrada,        \* entrada.pdf as observed: per page, what the searches return
    saida,          \* saida_anonimizada.pdf: NoFile or the saved pages
    accepted,       \* history: per page, the deduplicated list main handed to redact_rects
    trace,          \* history: the library calls made so far, in order
    text,           \* SpecPattern: the text searched
    shape,          \* SpecPattern: how text was built (kind, pre, post)
    found,          \* SpecPattern: result of re.search (once pc = "re_done")
    boxes,          \* SpecOcr: the OCR fragments
    dpi,            \* SpecOcr: the dpi argument
    pdf_rects       \* SpecOcr: result of ocr_rects_for_page (once pc = "ocr_done")

vars == <<pc, page, doc, reader, cur, rects_primary, rects_fallback, ocr_rects,
          all_rects, unique, entrada, saida, accepted, trace,
          text, shape, found, boxes, dpi, pdf_rects>>

pipelineVars == <<page, doc, reader, cur, rects_primary, rects_fallback,
                  ocr_rects, entrada, saida, accepted, trace>>
dedupVars == <<all_rects, unique>>
patternVars == <<text, shape, found>>
ocrVars == <<boxes, dpi, pdf_rects>>

----------------------------------------------------------------------------
(* Generic helpers *)

RECURSIVE SeqsUpTo(_, _)
SeqsUpTo(S, n) ==
    IF n = 0 THEN {<<>>}
    ELSE LET shorter == SeqsUpTo(S, n - 1)
         IN  shorter \cup {Append(s, x) : s \in {t \in shorter : Len(t) = n - 1}, x \in S}

RECURSIVE Flatten(_)
Flatten(ss) == IF ss = <<>> THEN <<>> ELSE Head(ss) \o Flatten(Tail(ss))

Range(s) == {s[i] : i \in DOMAIN s}

Min(S) == CHOOSE x \in S : \A y \in S : x <= y
Max(S) == CHOOSE x \in S : \A y \in S : x >= y

----------------------------------------------------------------------------
(* The identifier pattern: cpf_regex, cnpj_regex, combined_pattern         *)

Digit == {"0", "1", "2", "3", "4", "5", "6", "7", "8", "9"}
Letter == {"a", "x", "C", "N", "P", "J", "c", "n", "p", "j", "F"}
Space == {" ", "\n"}
\* \w of the re module: letters, digits and the underscore
IsWord(ch) == ch \in Digit \cup Letter \cup {"_"}

\* Pattern elements: one character of a class, an optional one (greedy ?),
\* a greedy star, or the word boundary \b.
One(c) == [t |-> "one", c |-> c]
Opt(c) == [t |-> "opt", c |-> c]
Star(c) == [t |-> "star", c |-> c]
WB == [t |-> "wb", c |-> {}]

RECURSIVE Rep(_, _)
Rep(e, n) == IF n = 0 THEN <<>> ELSE <<e>> \o Rep(e, n - 1)

D(n) == Rep(One(Digit), n)

\* \b holds at position i (between text[i-1] and text[i])
AtBoundary(t, i) ==
    LET before == i > 1 /\ IsWord(t[i - 1])
        after == i <= Len(t) /\ IsWord(t[i])
    IN  before # after

\* \d{3}[\.\s-]?\d{3}[\.\s-]?\d{3}[\.\s-]?\d{2}
CpfSep == {".", "-"} \cup Space
cpf_grouped == D(3) \o <<Opt(CpfSep)>> \o D(3) \o <<Opt(CpfSep)>> \o D(3) \o <<Opt(CpfSep)>> \o D(2)
\* \d{11}
cpf_run == D(11)
\* variant: the closing \b left out
cpf_regex_open == << <<WB>> \o cpf_grouped, <<WB>> \o cpf_run >>
\* \b(?: grouped | run )\b, the alternatives in the order the engine tries them
cpf_regex == << <<WB>> \o cpf_grouped \o <<WB>>, <<WB>> \o cpf_run \o <<WB>> >>

\* (?:CNPJ\s*:?\s*)? under re.IGNORECASE
cnpj_prefix == <<One({"C", "c"}), One({"N", "n"}), One({"P", "p"}), One({"J", "j"}),
                 Star(Space), Opt({":"}), Star(Space)>>
\* \d{2}[\.\s-]?\d{3}[\.\s-]?\d{3}[\s/-]?\d{4}[\s-]?\d{2}
cnpj_grouped == D(2) \o <<Opt(CpfSep)>> \o D(3) \o <<Opt(CpfSep)>> \o D(3)
                \o <<Opt(Space \cup {"/", "-"})>> \o D(4) \o <<Opt(Space \cup {"-"})>> \o D(2)
\* \d{14}
cnpj_run == D(14)
\* the optional prefix is greedy: with the prefix first, then without
cnpj_regex == << cnpj_prefix \o cnpj_grouped, cnpj_prefix \o cnpj_run, cnpj_grouped, cnpj_run >>

\* (?:cpf|cnpj): the CPF alternatives before the CNPJ ones
combined_pattern == cpf_regex \o cnpj_regex

\* The positions at which pat[k..] can end when started at position i of t,
\* in the order a backtracking engine finds them.
RECURSIVE Ends(_, _, _, _)
Ends(t, i, pat, k) ==
    IF k > Len(pat) THEN <<i>>
    ELSE LET e == pat[k]
             here == i <= Len(t) /\ t[i] \in e.c
         IN  CASE e.t = "one" -> IF here THEN Ends(t, i + 1, pat, k + 1) ELSE <<>>
               [] e.t = "opt" -> (IF here THEN Ends(t, i + 1, pat, k + 1) ELSE <<>>)
                                 \o Ends(t, i, pat, k + 1)
               [] e.t = "star" -> (IF here THEN Ends(t, i + 1, pat, k) ELSE <<>>)
                                  \o Ends(t, i, pat, k + 1)
               [] e.t = "wb" -> IF AtBoundary(t, i) THEN Ends(t, i, pat, k + 1) ELSE <<>>

\* End positions of a match of the alternation alts started at i, in priority order
MatchAt(t, i, alts) == Flatten([a \in DOMAIN alts |-> Ends(t, i, alts[a], 1)])

\* re.search(pattern, t) is not None
Search(alts, t) == \E i \in 1..(Len(t) + 1) : MatchAt(t, i, alts) # <<>>

\* str.strip(): leading and trailing whitespace removed
RECURSIVE LStrip(_)
LStrip(s) == IF s # <<>> /\ Head(s) \in Space THEN LStrip(Tail(s)) ELSE s
RECURSIVE RStrip(_)
RStrip(s) == IF s # <<>> /\ s[Len(s)] \in Space THEN RStrip(SubSeq(s, 1, Len(s) - 1)) ELSE s
Strip(s) == RStrip(LStrip(s))

\* [m.group(0) for m in re.finditer(pattern, t)]: leftmost, non-overlapping
RECURSIVE FindIter(_, _, _)
FindIter(alts, t, i) ==
    IF i > Len(t) + 1 THEN <<>>
    ELSE LET es == MatchAt(t, i, alts)
         IN  IF es = <<>> THEN FindIter(alts, t, i + 1)
             ELSE IF es[1] = i THEN <<<<>>>> \o FindIter(alts, t, i + 1)
             ELSE <<SubSeq(t, i, es[1] - 1)>> \o FindIter(alts, t, es[1])

----------------------------------------------------------------------------
(* Texts searched under SpecPattern *)

\* longest context put before and after the identifier-shaped core
MaxCtx == 1
CtxChars == {"a", "7", "_", " ", ".", ":"}

Digits15 == <<"1", "2", "3", "4", "5", "6", "7", "8", "9", "0", "9", "1", "2", "3", "4">>
Run(n) == SubSeq(Digits15, 1, n)
RunLens == {10, 11, 12, 14, 15}

SepChoice(S) == {<<>>} \cup {<<s>> : s \in S}
\* an 11-digit sequence grouped 3-3-3-2, each separator absent or one of . - space
CpfTexts ==
    {SubSeq(Digits15, 1, 3) \o s1 \o SubSeq(Digits15, 4, 6) \o s2
        \o SubSeq(Digits15, 7, 9) \o s3 \o SubSeq(Digits15, 10, 11) :
        s1 \in SepChoice({".", "-", " "}), s2 \in SepChoice({".", "-", " "}),
        s3 \in SepChoice({".", "-", " "})}
\* a 14-digit sequence grouped 2-3-3-4-2, with and without the CNPJ prefix
CnpjTexts ==
    {p \o SubSeq(Digits15, 1, 2) \o s1 \o SubSeq(Digits15, 3, 8) \o s3
        \o SubSeq(Digits15, 9, 12) \o s4 \o SubSeq(Digits15, 13, 14) :
        p \in {<<>>, <<"c", "N", "p", "J", ":", " ">>}, s1 \in SepChoice({"."}),
        s3 \in SepChoice({"/"}), s4 \in SepChoice({"-"})}

Shapes ==
    [kind : {"cpf"}, core : CpfTexts, pre : SeqsUpTo(CtxChars, MaxCtx), post : SeqsUpTo(CtxChars, MaxCtx)]
    \cup [kind : {"run"}, core : {Run(n) : n \in RunLens}, pre : SeqsUpTo(CtxChars, MaxCtx),
          post : SeqsUpTo(CtxChars, MaxCtx)]
    \cup [kind : {"cnpj"}, core : CnpjTexts, pre : SeqsUpTo(CtxChars, MaxCtx), post : {<<>>}]


TextOf(sh) == sh.pre \o sh.core \o sh.post

\* values of the variables a specification does not use
PipelineIdle ==
    /\ page = 0 /\ doc = <<>> /\ reader = 0 /\ cur = <<>>
    /\ rects_primary = <<>> /\ rects_fallback = <<>> /\ ocr_rects = <<>>
    /\ entrada = <<>> /\ saida = <<>> /\ accepted = <<>> /\ trace = <<>>
DedupIdle == all_rects = <<>> /\ unique = <<>>
PatternIdle == text = <<>> /\ shape = <<>> /\ found = FALSE
OcrIdle == boxes = <<>> /\ dpi = 0 /\ pdf_rects = <<>>

InitPattern ==
    /\ shape \in Shapes
    /\ text = TextOf(shape)
    /\ found = FALSE
    /\ pc = "re_search"
    /\ PipelineIdle /\ DedupIdle /\ OcrIdle

\* re.search(combined_pattern, text)
SearchText ==
    /\ pc = "re_search"
    /\ found' = Search(combined_pattern, text)
    /\ pc' = "re_done"
    /\ UNCHANGED <<text, shape, pipelineVars, dedupVars, ocrVars>>

NextPattern == SearchText

SpecPattern == InitPattern /\ [][NextPattern]_vars


(* Pattern claims *)

IsRunAlone(n) ==
    shape.kind = "run" /\ Len(shape.core) = n /\ shape.pre = <<>> /\ shape.post = <<>>
HasCpfSequence == shape.kind = "cpf" \/ (shape.kind = "run" /\ Len(shape.core) = 11)
\* no word character touches the core on either side
Delimited ==
    /\ shape.pre = <<>> \/ ~IsWord(shape.pre[Len(shape.pre)])
    /\ shape.post = <<>> \/ ~IsWord(shape.post[1])

\* C8: a text that is a run of exactly 15 digits is not matched by the combined pattern.
C8_FifteenDigitsNoMatch == (pc = "re_done" /\ IsRunAlone(15)) => ~found

\* C9 as stated: every text containing an 11-digit sequence (contiguous or grouped 3-3-3-2),
\* whatever precedes or follows it, is matched; a 10- or 12-digit run is not.
C9_AnyContext ==
    pc = "re_done" =>
        /\ HasCpfSequence => found
        /\ (IsRunAlone(10) \/ IsRunAlone(12)) => ~found

\* C9 amended: an 11-digit sequence (contiguous or grouped 3-3-3-2) that no word character
\* touches on either side is matched; a text that is a 10- or 12-digit run is not.
C9_Delimited ==
    pc = "re_done" =>
        /\ (HasCpfSequence /\ Delimited) => found
        /\ (IsRunAlone(10) \/ IsRunAlone(12)) => ~found

C9_Witness ==
    /\ pc = "re_done" /\ shape.kind = "cpf" /\ Len(shape.core) > 11
    /\ shape.pre # <<>> /\ shape.post # <<>> /\ Delimited /\ found

----------------------------------------------------------------------------
(* The OCR detector: boxes_to_rects_if_match, ocr_rects_for_page *)

\* OCR_DPI = 200
OCR_DPI == 200
\* the 72 of zoom = dpi / 72.0
PdfDpi == 72

Xs(box) == {box[i][1] : i \in DOMAIN box}
Ys(box) == {box[i][2] : i \in DOMAIN box}

\* variant: the first and third points taken as the corners
boxes_to_rects_corners(bs) ==
    LET hit(b) == b.text # <<>> /\ Search(combined_pattern, b.text)
        F[i \in 0..Len(bs)] ==
            IF i = 0 THEN <<>>
            ELSE IF hit(bs[i])
                 THEN Append(F[i - 1], <<bs[i].box[1][1], bs[i].box[1][2],
                                         bs[i].box[3][1], bs[i].box[3][2]>>)
                 ELSE F[i - 1]
    IN  F[Len(bs)]

\* for box, text, conf in boxes: skip empty text; on re.search append
\* Rect(min(xs), min(ys), max(xs), max(ys)), in pixels
boxes_to_rects_if_match(bs) ==
    LET F[i \in 0..Len(bs)] ==
            IF i = 0 THEN <<>>
            ELSE IF bs[i].text = <<>> THEN F[i - 1]
            ELSE IF Search(combined_pattern, bs[i].text)
                 THEN Append(F[i - 1], <<Min(Xs(bs[i].box)), Min(Ys(bs[i].box)),
                                         Max(Xs(bs[i].box)), Max(Ys(bs[i].box))>>)
                 ELSE F[i - 1]
    IN  F[Len(bs)]

\* Rect(r) * Matrix(1 / zoom, 1 / zoom) with zoom = d / 72: pixels to hundredths of a point
ToPageSpace(r, d) == [k \in 1..4 |-> (r[k] * PdfDpi * 100) \div d]

\* pix, img and the reader only carry the page to the OCR engine; bs is what readtext returns
ocr_rects_for_page(bs, d) ==
    LET img_rects == boxes_to_rects_if_match(bs)
    IN  [k \in DOMAIN img_rects |-> ToPageSpace(img_rects[k], d)]

\* most fragments readtext returns for one page
MaxBoxes == 2
Polygons == { <<<<10, 10>>, <<30, 10>>, <<30, 20>>, <<10, 20>>>>,
              <<<<12, 8>>, <<32, 12>>, <<30, 22>>, <<10, 18>>>>,
              <<<<30, 20>>, <<10, 20>>, <<10, 10>>, <<30, 10>>>> }
CpfText == <<"1", "2", "3", ".", "4", "5", "6", ".", "7", "8", "9", "-", "0", "9">>
OcrTexts == { <<>>, <<"a", "x">>, CpfText, <<"C", "P", "F", ":", " ">> \o CpfText,
              <<"a">> \o CpfText }
Fragments == [box : Polygons, text : OcrTexts, conf : {1}]
DpiChoices == {PdfDpi, OCR_DPI}

InitOcr ==
    /\ boxes \in SeqsUpTo(Fragments, MaxBoxes)
    /\ dpi \in DpiChoices
    /\ pdf_rects = <<>>
    /\ pc = "ocr_call"
    /\ PipelineIdle /\ DedupIdle /\ PatternIdle

OcrCall ==
    /\ pc = "ocr_call"
    /\ pdf_rects' = ocr_rects_for_page(boxes, dpi)
    /\ pc' = "ocr_done"
    /\ UNCHANGED <<boxes, dpi, pipelineVars, dedupVars, patternVars>>

NextOcr == OcrCall

SpecOcr == InitOcr /\ [][NextOcr]_vars

\* the fragments whose text is non-empty and contains an identifier, in order
Hits(bs) == SelectSeq([i \in DOMAIN bs |-> i],
                      LAMBDA i : bs[i].text # <<>> /\ Search(combined_pattern, bs[i].text))

\* r is the axis-aligned bounding box of the polygon
IsBoundingBox(r, box) ==
    /\ \A i \in DOMAIN box : r[1] <= box[i][1] /\ box[i][1] <= r[3]
                             /\ r[2] <= box[i][2] /\ box[i][2] <= r[4]
    /\ \E i \in DOMAIN box : box[i][1] = r[1]
    /\ \E i \in DOMAIN box : box[i][1] = r[3]
    /\ \E i \in DOMAIN box : box[i][2] = r[2]
    /\ \E i \in DOMAIN box : box[i][2] = r[4]

\* a page-space rectangle (hundredths of a point) times zoom = d / 72, in pixels
ScaledByZoom(r, d) == [c \in 1..4 |-> (r[c] * d) \div (PdfDpi * 100)]

\* C10: ocr_rects_for_page returns one rectangle per fragment whose non-empty text contains
\* an identifier and none for the others; scaled by zoom = dpi / 72, each rectangle is the
\* pixel-space bounding box of its fragment.
C10_OcrRects ==
    pc = "ocr_done" =>
        LET hits == Hits(boxes)
        IN  /\ Len(pdf_rects) = Len(hits)
            /\ \A k \in DOMAIN hits :
                  /\ \A c \in 1..4 : (pdf_rects[k][c] * dpi) % (PdfDpi * 100) = 0
                  /\ IsBoundingBox(ScaledByZoom(pdf_rects[k], dpi), boxes[hits[k]].box)

C10_Witness ==
    /\ pc = "ocr_done" /\ dpi = OCR_DPI /\ Len(boxes) = 2
    /\ boxes[1].text = <<"a", "x">> /\ boxes[2].text # <<>>
    /\ boxes[2].box[1] = <<12, 8>>
    /\ pdf_rects = << <<360, 288, 1152, 792>> >>


----------------------------------------------------------------------------
(* Deduplication: the loop over all_rects in main *)

\* round(c / 100, 1) in tenths, for c in hundredths.  Exact for every c that is not a tie
\* (last digit 5); a tie goes to the even neighbour, which is what round() gives when the
\* coordinate is exactly representable (multiples of 0.25); other ties are not drawn.
Round1(c) ==
    LET q == c \div 10
        r == c % 10
    IN  IF r < 5 THEN q
        ELSE IF r > 5 THEN q + 1
        ELSE IF q % 2 = 0 THEN q ELSE q + 1

\* key = (round(r.x0, 1), round(r.y0, 1), round(r.x1, 1), round(r.y1, 1))
Key(r) == <<Round1(r[1]), Round1(r[2]), Round1(r[3]), Round1(r[4])>>

\* variant: seen.add(key) left out
DedupNoSeen(rs) == rs

\* unique = []; seen = set(); for r in all_rects: skip r if its key was seen, else keep it
Dedup(rs) ==
    LET F[i \in 0..Len(rs)] ==
            IF i = 0 THEN [seen |-> {}, unique |-> <<>>]
            ELSE IF Key(rs[i]) \in F[i - 1].seen THEN F[i - 1]
            ELSE [seen |-> F[i - 1].seen \cup {Key(rs[i])},
                  unique |-> Append(F[i - 1].unique, rs[i])]
    IN  F[Len(rs)].unique

\* longest concatenated list drawn
MaxList == 3
DedupRects == {<<x0, 100, x1, y1>> : x0 \in {14, 16, 24, 25}, x1 \in {300, 304}, y1 \in {200, 206}}

InitDedup ==
    /\ all_rects \in SeqsUpTo(DedupRects, MaxList)
    /\ unique = <<>>
    /\ pc = "dedup_call"
    /\ PipelineIdle /\ PatternIdle /\ OcrIdle

DedupCall ==
    /\ pc = "dedup_call"
    /\ unique' = Dedup(all_rects)
    /\ pc' = "dedup_done"
    /\ UNCHANGED <<all_rects, pipelineVars, patternVars, ocrVars>>

NextDedup == DedupCall

SpecDedup == InitDedup /\ [][NextDedup]_vars

\* the positions of unique holding a rectangle with the rounded coordinates of r
Kept(r) == {k \in DOMAIN unique : Key(unique[k]) = Key(r)}

\* C5: two rectangles of the list whose coordinates agree to one decimal place are merged
\* into one committed rectangle, the first in list order; two that do not agree in some
\* coordinate are both committed.
C5_Dedup ==
    pc = "dedup_done" =>
        \A i, j \in DOMAIN all_rects :
            /\ (i < j /\ Key(all_rects[i]) = Key(all_rects[j])) =>
                  /\ Cardinality(Kept(all_rects[i])) = 1
                  /\ \A k \in Kept(all_rects[i]) :
                        \E f \in 1..i : /\ unique[k] = all_rects[f]
                                        /\ \A e \in 1..(f - 1) : Key(all_rects[e]) # Key(all_rects[f])
            /\ Key(all_rects[i]) # Key(all_rects[j]) =>
                  /\ Kept(all_rects[i]) # {} /\ Kept(all_rects[j]) # {}
                  /\ Kept(all_rects[i]) \cap Kept(all_rects[j]) = {}

C5_Witness ==
    /\ pc = "dedup_done"
    /\ all_rects = << <<16, 100, 300, 200>>, <<14, 100, 300, 200>>, <<24, 100, 304, 200>> >>
    /\ unique = << <<16, 100, 300, 200>>, <<14, 100, 300, 200>> >>


----------------------------------------------------------------------------
(* The pipeline: main() and the module-level second pass *)

\* pages of entrada.pdf
NumPages == 2
Pages == 1..NumPages

\* most fragments readtext returns for a page of entrada.pdf
MaxPageBoxes == 1

\* what a text search returns (hundredths of a point): nothing, or the rectangle of the
\* identifier printed on the page
NativeFound == {<<>>, << <<362, 360, 720, 540>> >>}
LiteralFound == {<<>>, << <<366, 360, 720, 540>> >>}

\* outcome of one library call that returns rectangles
Returned(rs) == [raises |-> FALSE, rects |-> rs]
Raised == [raises |-> TRUE, rects |-> <<>>]

\* page.search_for(pattern, flags) and, behind it, page.get_textpage(...).search(...)
NativeOutcomes ==
    {[kind |-> "native", direct |-> Returned(rs), has_alt |-> TRUE, alt |-> Returned(<<>>)] :
        rs \in NativeFound}
    \cup {[kind |-> "native", direct |-> Raised, has_alt |-> TRUE, alt |-> Returned(rs)] :
        rs \in NativeFound}
    \cup {[kind |-> "native", direct |-> Raised, has_alt |-> TRUE, alt |-> Raised],
          [kind |-> "native", direct |-> Raised, has_alt |-> FALSE, alt |-> Raised]}

\* page.get_text("text") and page.search_for(matched_text) for each matched substring
PageTexts == { <<>>, <<"a", "x">>, <<"C", "P", "F", ":", " ">> \o CpfText,
               CpfText \o <<"\n">> \o Run(14) }
\* re.finditer(combined_pattern, page_text) over the texts drawn
PageMatches == [t \in PageTexts |-> FindIter(combined_pattern, t, 1)]
Matched(t) == {Strip(m) : m \in Range(PageMatches[t])} \ {<<>>}
LiteralResults == {Raised} \cup {Returned(rs) : rs \in LiteralFound}
FallbackOutcomes ==
    {[kind |-> "fallback", text_raises |-> TRUE, text |-> <<>>, lit |-> <<>>]}
    \cup UNION {{[kind |-> "fallback", text_raises |-> FALSE, text |-> t, lit |-> l] :
                    l \in [Matched(t) -> LiteralResults]} : t \in PageTexts}

\* page.get_pixmap(...) / reader.readtext(...)
PageFragments == [box : {<<<<10, 10>>, <<20, 10>>, <<20, 15>>, <<10, 15>>>>},
                  text : {<<"a", "x">>, CpfText}, conf : {1}]
OcrOutcomes ==
    {[kind |-> "ocr", raises |-> TRUE, boxes |-> <<>>]}
    \cup {[kind |-> "ocr", raises |-> FALSE, boxes |-> bs] :
            bs \in SeqsUpTo(PageFragments, MaxPageBoxes)}

\* search_text_principal: the direct search; on an exception the text-page search when
\* the capability exists; on a second exception the empty list
search_text_principal(o) ==
    IF ~o.direct.raises THEN o.direct.rects
    ELSE IF o.has_alt /\ ~o.alt.raises THEN o.alt.rects
    ELSE <<>>

\* variant: the first failing literal search ends the loop
fallback_literal_rects_break(o) ==
    LET page_text == IF o.text_raises THEN <<>> ELSE o.text
        ms == PageMatches[page_text]
        F[i \in 0..Len(ms)] ==
            IF i = 0 THEN [rects |-> <<>>, stop |-> FALSE]
            ELSE IF F[i - 1].stop \/ Strip(ms[i]) = <<>> THEN F[i - 1]
            ELSE IF o.lit[Strip(ms[i])].raises THEN [rects |-> F[i - 1].rects, stop |-> TRUE]
            ELSE [rects |-> F[i - 1].rects \o o.lit[Strip(ms[i])].rects, stop |-> FALSE]
    IN  IF page_text = <<>> THEN <<>> ELSE F[Len(ms)].rects

\* fallback_literal_rects: the text ("" when extraction raises), re.finditer over it, a
\* literal search for each stripped non-empty match, a raising search skipped
fallback_literal_rects(o) ==
    LET page_text == IF o.text_raises THEN <<>> ELSE o.text
        ms == PageMatches[page_text]
        F[i \in 0..Len(ms)] ==
            IF i = 0 THEN <<>>
            ELSE IF Strip(ms[i]) = <<>> THEN F[i - 1]
            ELSE IF o.lit[Strip(ms[i])].raises THEN F[i - 1]
            ELSE F[i - 1] \o o.lit[Strip(ms[i])].rects
    IN  IF page_text = <<>> THEN <<>> ELSE F[Len(ms)]

\* a page of an open document
FreshPage == [annots |-> <<>>, redacted |-> {}, applies |-> 0]
\* fitz.open("entrada.pdf")
FreshDoc == [p \in Pages |-> FreshPage]

\* page.add_redact_annot(r, fill=(0, 0, 0))
add_redact_annot(pg, r) == [pg EXCEPT !.annots = Append(@, r)]
\* page.apply_redactions(): the content under every pending mark is removed
apply_redactions(pg) ==
    [pg EXCEPT !.redacted = @ \cup Range(pg.annots), !.annots = <<>>, !.applies = @ + 1]

RECURSIVE AddAll(_, _)
AddAll(pg, rs) == IF rs = <<>> THEN pg ELSE AddAll(add_redact_annot(pg, Head(rs)), Tail(rs))

\* variant: apply_redactions inside the loop
redact_rects_each(pg, rs) ==
    LET F[i \in 0..Len(rs)] ==
            IF i = 0 THEN [pg |-> pg, calls |-> <<>>]
            ELSE [pg |-> apply_redactions(add_redact_annot(F[i - 1].pg, rs[i])),
                  calls |-> F[i - 1].calls \o <<"annot", "apply">>]
    IN  F[Len(rs)]

\* redact_rects: a mark for every rectangle, then one apply_redactions if there is any.
\* Yields the page and the library calls made.
redact_rects(pg, rs) ==
    IF rs # <<>>
    THEN [pg |-> apply_redactions(AddAll(pg, rs)),
          calls |-> [i \in DOMAIN rs |-> "annot"] \o <<"apply">>]
    ELSE [pg |-> pg, calls |-> <<>>]

Event(op, pass, p) == [op |-> op, pass |-> pass, page |-> p]
Events(calls, pass, p) == [i \in DOMAIN calls |-> Event(calls[i], pass, p)]

NoCall == [kind |-> "none"]
NoFlags == [call |-> NoCall, nat_failed |-> FALSE, fb_failed |-> FALSE]
NativeFailed(o) == o.direct.raises /\ (~o.has_alt \/ o.alt.raises)
FallbackFailed(o) == o.text_raises \/ \E m \in DOMAIN o.lit : o.lit[m].raises

\* doc.save("saida_anonimizada.pdf"): what is removed from each page
Saved(d) == [p \in Pages |-> d[p].redacted]

Init ==
    /\ pc = "start"
    /\ page = 0
    /\ doc = <<>>
    /\ reader = 0
    /\ cur = NoFlags
    /\ rects_primary = <<>> /\ rects_fallback = <<>> /\ ocr_rects = <<>>
    /\ all_rects = <<>> /\ unique = <<>>
    /\ entrada = [p \in Pages |-> [native |-> <<>>, fallback |-> <<>>]]
    /\ saida = <<>>
    /\ accepted = [p \in Pages |-> <<>>]
    /\ trace = <<>>
    /\ PatternIdle /\ OcrIdle

\* main: doc = fitz.open("entrada.pdf")
MainOpen ==
    /\ pc = "start"
    /\ doc' = FreshDoc
    /\ trace' = Append(trace, Event("open", 1, 0))
    /\ pc' = "reader"
    /\ UNCHANGED <<page, reader, cur, rects_primary, rects_fallback, ocr_rects, all_rects,
                   unique, entrada, saida, accepted, patternVars, ocrVars>>

\* main: reader = easyocr.Reader(OCR_LANGS, gpu=False)
MainReader ==
    /\ pc = "reader"
    /\ reader' = reader + 1
    /\ trace' = Append(trace, Event("reader", 1, 0))
    /\ pc' = "for"
    /\ UNCHANGED <<page, doc, cur, rects_primary, rects_fallback, ocr_rects, all_rects,
                   unique, entrada, saida, accepted, patternVars, ocrVars>>

\* main: for page in doc: all_rects = []  (or the loop ends)
MainFor ==
    /\ pc = "for"
    /\ IF page < NumPages
       THEN /\ page' = page + 1
            /\ pc' = "native"
       ELSE /\ page' = page
            /\ pc' = "save"
    /\ cur' = NoFlags
    /\ rects_primary' = <<>> /\ rects_fallback' = <<>> /\ ocr_rects' = <<>>
    /\ all_rects' = <<>> /\ unique' = <<>>
    /\ UNCHANGED <<doc, reader, entrada, saida, accepted, trace, patternVars, ocrVars>>

\* main: rects_primary = search_text_principal(page); all_rects.extend(rects_primary)
MainNative ==
    /\ pc = "native"
    /\ \E o \in NativeOutcomes :
          /\ rects_primary' = search_text_principal(o)
          /\ cur' = [cur EXCEPT !.call = o, !.nat_failed = NativeFailed(o)]
    /\ all_rects' = all_rects \o rects_primary'
    /\ entrada' = [entrada EXCEPT ![page].native = rects_primary']
    /\ trace' = Append(trace, Event("native", 1, page))
    /\ pc' = "fallback"
    /\ UNCHANGED <<page, doc, reader, rects_fallback, ocr_rects, unique, saida, accepted,
                   patternVars, ocrVars>>

\* main: rects_fallback = fallback_literal_rects(page); all_rects.extend(rects_fallback)
MainFallback ==
    /\ pc = "fallback"
    /\ \E o \in FallbackOutcomes :
          /\ rects_fallback' = fallback_literal_rects(o)
          /\ cur' = [cur EXCEPT !.call = o, !.fb_failed = FallbackFailed(o)]
    /\ all_rects' = all_rects \o rects_fallback'
    /\ entrada' = [entrada EXCEPT ![page].fallback = rects_fallback']
    /\ trace' = Append(trace, Event("fallback", 1, page))
    /\ pc' = "ocr"
    /\ UNCHANGED <<page, doc, reader, rects_primary, ocr_rects, unique, saida, accepted,
                   patternVars, ocrVars>>

\* main: ocr_rects = ocr_rects_for_page(doc, page, OCR_DPI, reader); all_rects.extend(ocr_rects)
MainOcr ==
    /\ pc = "ocr"
    /\ \E o \in OcrOutcomes :
          /\ ~o.raises
          /\ ocr_rects' = ocr_rects_for_page(o.boxes, OCR_DPI)
          /\ cur' = [cur EXCEPT !.call = o]
    /\ all_rects' = all_rects \o ocr_rects'
    /\ trace' = Append(trace, Event("ocr", 1, page))
    /\ pc' = "dedup"
    /\ UNCHANGED <<page, doc, reader, rects_primary, rects_fallback, unique, entrada, saida,
                   accepted, patternVars, ocrVars>>

\* variant: the exception of the OCR detector caught, the page going on without OCR rectangles
MainOcrSwallowed ==
    /\ pc = "ocr"
    /\ \E o \in OcrOutcomes :
          /\ o.raises
          /\ cur' = [cur EXCEPT !.call = o]
    /\ trace' = Append(trace, Event("ocr", 1, page))
    /\ pc' = "dedup"
    /\ UNCHANGED <<page, doc, reader, rects_primary, rects_fallback, ocr_rects, all_rects,
                   unique, entrada, saida, accepted, patternVars, ocrVars>>

\* main: get_pixmap or readtext raises inside ocr_rects_for_page; nothing catches it, so it
\* leaves main and ends the script
MainOcrRaises ==
    /\ pc = "ocr"
    /\ \E o \in OcrOutcomes :
          /\ o.raises
          /\ cur' = [cur EXCEPT !.call = o]
    /\ trace' = Append(trace, Event("ocr", 1, page))
    /\ pc' = "crashed"
    /\ UNCHANGED <<page, doc, reader, rects_primary, rects_fallback, ocr_rects, all_rects,
                   unique, entrada, saida, accepted, patternVars, ocrVars>>

\* main: the deduplication loop
MainDedup ==
    /\ pc = "dedup"
    /\ unique' = Dedup(all_rects)
    /\ pc' = "redact"
    /\ UNCHANGED <<page, doc, reader, cur, rects_primary, rects_fallback, ocr_rects,
                   all_rects, entrada, saida, accepted, trace, patternVars, ocrVars>>

\* main: redact_rects(page, unique)
MainRedact ==
    /\ pc = "redact"
    /\ LET res == redact_rects(doc[page], unique)
       IN  /\ doc' = [doc EXCEPT ![page] = res.pg]
           /\ trace' = trace \o Events(res.calls, 1, page)
    /\ accepted' = [accepted EXCEPT ![page] = unique]
    /\ pc' = "for"
    /\ UNCHANGED <<page, reader, cur, rects_primary, rects_fallback, ocr_rects, all_rects,
                   unique, entrada, saida, patternVars, ocrVars>>

\* main: doc.save("saida_anonimizada.pdf"); main returns and the module goes on at line 218
MainSave ==
    /\ pc = "save"
    /\ saida' = Saved(doc)
    /\ trace' = Append(trace, Event("save", 1, 0))
    /\ pc' = "second"
    /\ UNCHANGED <<page, doc, reader, cur, rects_primary, rects_fallback, ocr_rects,
                   all_rects, unique, entrada, accepted, patternVars, ocrVars>>

\* second pass: doc = fitz.open("entrada.pdf"), the unredacted input again
SecondOpen ==
    /\ pc = "second"
    /\ doc' = FreshDoc
    /\ page' = 0
    /\ trace' = Append(trace, Event("open", 2, 0))
    /\ pc' = "s_for"
    /\ UNCHANGED <<reader, cur, rects_primary, rects_fallback, ocr_rects, all_rects, unique,
                   entrada, saida, accepted, patternVars, ocrVars>>

\* second pass: for page in doc  (or the loop ends)
SecondFor ==
    /\ pc = "s_for"
    /\ IF page < NumPages
       THEN /\ page' = page + 1
            /\ pc' = "s_native"
       ELSE /\ page' = page
            /\ pc' = "s_save"
    /\ cur' = NoFlags
    /\ rects_primary' = <<>> /\ rects_fallback' = <<>>
    /\ UNCHANGED <<doc, reader, ocr_rects, all_rects, unique, entrada, saida, accepted,
                   trace, patternVars, ocrVars>>

\* second pass: text_instances by the same searches, a mark for each.  The file is the one
\* main read, so the searches return what they returned in main.
SecondNative ==
    /\ pc = "s_native"
    /\ \E o \in NativeOutcomes :
          /\ search_text_principal(o) = entrada[page].native
          /\ rects_primary' = search_text_principal(o)
          /\ cur' = [cur EXCEPT !.call = o, !.nat_failed = NativeFailed(o)]
    /\ doc' = [doc EXCEPT ![page] = AddAll(@, rects_primary')]
    /\ trace' = Append(trace, Event("native", 2, page))
                \o [i \in DOMAIN rects_primary' |-> Event("annot", 2, page)]
    /\ pc' = "s_fallback"
    /\ UNCHANGED <<page, reader, rects_fallback, ocr_rects, all_rects, unique, entrada,
                   saida, accepted, patternVars, ocrVars>>

\* second pass: the literal fallback, a mark for each rectangle found
SecondFallback ==
    /\ pc = "s_fallback"
    /\ \E o \in FallbackOutcomes :
          /\ fallback_literal_rects(o) = entrada[page].fallback
          /\ rects_fallback' = fallback_literal_rects(o)
          /\ cur' = [cur EXCEPT !.call = o, !.fb_failed = FallbackFailed(o)]
    /\ doc' = [doc EXCEPT ![page] = AddAll(@, rects_fallback')]
    /\ trace' = Append(trace, Event("fallback", 2, page))
                \o [i \in DOMAIN rects_fallback' |-> Event("annot", 2, page)]
    /\ pc' = "s_apply"
    /\ UNCHANGED <<page, reader, rects_primary, ocr_rects, all_rects, unique, entrada,
                   saida, accepted, patternVars, ocrVars>>

\* second pass: page.apply_redactions(), whether or not a mark was added
SecondApply ==
    /\ pc = "s_apply"
    /\ doc' = [doc EXCEPT ![page] = apply_redactions(@)]
    /\ trace' = Append(trace, Event("apply", 2, page))
    /\ pc' = "s_for"
    /\ UNCHANGED <<page, reader, cur, rects_primary, rects_fallback, ocr_rects, all_rects,
                   unique, entrada, saida, accepted, patternVars, ocrVars>>

\* second pass: doc.save("saida_anonimizada.pdf"), over the file main wrote
SecondSave ==
    /\ pc = "s_save"
    /\ saida' = Saved(doc)
    /\ trace' = Append(trace, Event("save", 2, 0))
    /\ pc' = "end"
    /\ UNCHANGED <<page, doc, reader, cur, rects_primary, rects_fallback, ocr_rects,
                   all_rects, unique, entrada, accepted, patternVars, ocrVars>>

Next ==
    \/ MainOpen \/ MainReader \/ MainFor \/ MainNative \/ MainFallback
    \/ MainOcr \/ MainOcrRaises \/ MainDedup \/ MainRedact \/ MainSave
    \/ SecondOpen \/ SecondFor \/ SecondNative \/ SecondFallback \/ SecondApply \/ SecondSave

Spec == Init /\ [][Next]_vars


----------------------------------------------------------------------------
(* Pipeline claims *)

At(op, pass, p) == {i \in DOMAIN trace : trace[i] = Event(op, pass, p)}
OfOp(op) == {i \in DOMAIN trace : trace[i].op = op}
PageCalls == {i \in DOMAIN trace : trace[i].page >= 1}

InMain == pc \in {"start", "reader", "for", "native", "fallback", "ocr", "dedup", "redact",
                  "save", "crashed"}
\* main has finished page p (its redact_rects call has returned)
DoneInMain(p) == ~InMain \/ p < page \/ (p = page /\ pc \in {"for", "save"})

\* the region r lies inside a redacted rectangle of the saved page
Covered(r, removed) ==
    \E q \in removed : q[1] <= r[1] /\ q[2] <= r[2] /\ r[3] <= q[3] /\ r[4] <= q[4]

\* C1: when the script has ended, every rectangle main accepted for a page after
\* deduplication is redacted in saida_anonimizada.pdf.
C1_AcceptedRedactedInOutput ==
    pc = "end" => \A p \in Pages : \A r \in Range(accepted[p]) : Covered(r, saida[p])

\* C2: a page whose deduplicated list is empty gets no redaction mark and no
\* apply_redactions call.
C2_EmptyMeansNoCommit ==
    \A i \in DOMAIN trace :
        trace[i].op \in {"annot", "apply"} => accepted[trace[i].page] # <<>>

\* C3: when the OCR detector raises on a page the run ends there: the failure is the one
\* that ends the script, no later page is touched, no step follows and nothing is saved.
C3_OcrFailureHalts ==
    /\ [](/\ (cur.call.kind = "ocr" /\ cur.call.raises) => pc = "crashed"
          /\ pc = "crashed" =>
                /\ cur.call.kind = "ocr" /\ cur.call.raises
                /\ saida = <<>> /\ OfOp("save") = {}
                /\ \A i \in DOMAIN trace : trace[i].page <= page)
    /\ [][pc = "crashed" => UNCHANGED vars]_vars

C3_Witness ==
    /\ pc = "crashed" /\ page = 2 /\ doc[1].applies = 1 /\ accepted[1] # <<>>
    /\ saida = <<>>

\* what the literal searches that did not raise return, in match order
KeptLiteral(o) ==
    IF o.text_raises THEN <<>>
    ELSE LET ms == PageMatches[o.text]
         IN  Flatten([i \in DOMAIN ms |->
                        IF o.lit[ms[i]].raises THEN <<>> ELSE o.lit[ms[i]].rects])

\* C4: a failure inside the native or the fallback detector never ends the run: the native
\* detector then yields the empty list, the fallback detector drops only the failing
\* substring, and the page still goes through the remaining detectors and its commit.
C4_RecoverableFailuresSwallowed ==
    /\ pc = "crashed" => cur.call.kind = "ocr"
    /\ (cur.call.kind = "native" /\ NativeFailed(cur.call)) => rects_primary = <<>>
    /\ cur.call.kind = "fallback" => rects_fallback = KeptLiteral(cur.call)
    /\ (pc = "s_for" /\ page >= 1 /\ (cur.nat_failed \/ cur.fb_failed)) =>
          /\ At("native", 2, page) # {} /\ At("fallback", 2, page) # {}
          /\ doc[page].redacted = Range(rects_primary \o rects_fallback)
          /\ doc[page].applies = 1
    /\ (InMain /\ pc = "for" /\ page >= 1 /\ (cur.nat_failed \/ cur.fb_failed)) =>
          /\ At("native", 1, page) # {} /\ At("fallback", 1, page) # {}
          /\ At("ocr", 1, page) # {}
          /\ unique = Dedup(rects_primary \o rects_fallback \o ocr_rects)
          /\ doc[page].redacted = Range(unique)
          /\ unique # <<>> => doc[page].applies = 1

C4_Witness ==
    /\ pc = "for" /\ page >= 1 /\ cur.nat_failed /\ cur.fb_failed
    /\ rects_fallback # <<>> /\ ocr_rects # <<>>
    /\ Len(unique) = 2 /\ doc[page].applies = 1

\* C6: in main, a page with a surviving rectangle is committed exactly once, after the
\* native, fallback and OCR detectors ran on it in that order and after every surviving
\* rectangle was marked; no detector call on a page follows that page's commit.
C6_CommitOnceAfterDetection ==
    \A p \in Pages :
        /\ \A pass \in {1, 2} :
              /\ Cardinality(At("apply", pass, p)) <= 1
              /\ \A k \in At("apply", pass, p) : \A i \in DOMAIN trace :
                    (i > k /\ trace[i].pass = pass /\ trace[i].page = p) =>
                        trace[i].op \notin {"native", "fallback", "ocr", "annot"}
        /\ (DoneInMain(p) /\ accepted[p] # <<>>) => Cardinality(At("apply", 1, p)) = 1
        /\ (DoneInMain(p) /\ InMain) =>
              (doc[p].redacted = Range(accepted[p]) /\ doc[p].annots = <<>>)
        /\ \A k \in At("apply", 1, p) :
              /\ \E a \in At("native", 1, p), b \in At("fallback", 1, p), c \in At("ocr", 1, p) :
                    a < b /\ b < c /\ c < k
              /\ Cardinality(At("native", 1, p)) = 1
              /\ Cardinality(At("fallback", 1, p)) = 1
              /\ Cardinality(At("ocr", 1, p)) = 1
              /\ Cardinality({i \in At("annot", 1, p) : i < k}) = Len(accepted[p])

C6_Witness ==
    /\ pc = "for" /\ page = 1 /\ Len(accepted[1]) = 2
    /\ doc[1].applies = 1 /\ Cardinality(doc[1].redacted) = 2

\* C7: the document is opened once and the OCR engine initialised once, both before the
\* first page; pages are processed in document order; the output is saved once, after
\* the last page.
C7_OpenInitSaveOnce ==
    /\ Cardinality(OfOp("open")) <= 1
    /\ Cardinality(OfOp("reader")) <= 1 /\ reader <= 1
    /\ Cardinality(OfOp("save")) <= 1
    /\ \A i \in PageCalls :
          /\ \E o \in OfOp("open"), r \in OfOp("reader") : o < i /\ r < i
          /\ \A j \in PageCalls : i < j => trace[i].page <= trace[j].page
          /\ \A sv \in OfOp("save") : i < sv
    /\ pc = "end" =>
          /\ Cardinality(OfOp("open")) = 1 /\ reader = 1 /\ Cardinality(OfOp("save")) = 1
          /\ \A p \in Pages : At("ocr", 1, p) # {}

====
